---- MODULE Spec2Model ----
(***************************************************************************)
(* Path/session state machine of RestreamServerLib::Server::Private        *)
(* (src/RestreamServerLib/Server.cpp): the clients and paths maps, the     *)
(* pre-play / pre-record admission checks, the play / record / teardown /  *)
(* closed handlers and the four lifecycle notifications they emit.         *)
(***************************************************************************)
EXTENDS Integers, Sequences, FiniteSets, TLC

\* ------------------------------------------------------------------ bounds
\* GstRTSPClient pointers of the connections the engine can have open.
Clients == {"c1", "c2"}

\* url->abspath values, in the iteration order of std::set<std::string>.
PathOrder == <<"/a", "/b">>

Paths == {PathOrder[i] : i \in 1..Len(PathOrder)}

\* Session ids handed out by the RTSP engine (never empty).
Sessions == {"s1", "s2"}

\* Largest value of the maxClientsPerPath option explored.
MaxLimit == 2

\* Cap on playCount when no admission check gates onPlay.
MaxPlayCount == 2

\* Cap on the surplus of firstPlayerConnected over lastPlayerDisconnected.
MaxBalance == 2

\* ------------------------------------------------------- program constants
NoClient == "nullptr"

NoSession == ""

GST_RTSP_STS_OK == "200 OK"

GST_RTSP_STS_FORBIDDEN == "403 Forbidden"

GST_RTSP_STS_SERVICE_UNAVAILABLE == "503 Service Unavailable"

\* -------------------------------------------------------------------- state
VARIABLES
    clients,            \* std::map<const GstRTSPClient*, ClientInfo>
    paths,              \* std::map<std::string, PathInfo>
    maxClientsPerPath,  \* const unsigned maxClientsPerPath
    ndebug,             \* TRUE iff the build compiles assert() away
    aborted,            \* TRUE once a failed assert() has ended the process
    event,              \* the handler that ran last, with its arguments/status
    emitted,            \* notifications sent by the handler that ran last
    playBalance,        \* per path: #firstPlayerConnected - #lastPlayerDisconnected
    recBalance,         \* per path: #recorderConnected - #recorderDisconnected
    activePlay,         \* play sessions started and neither torn down nor closed
    registered          \* clients registered by onPlay/onRecord and not closed since

vars == <<clients, paths, maxClientsPerPath, ndebug, aborted,
          event, emitted, playBalance, recBalance, activePlay, registered>>

store == <<clients, paths>>

config == <<maxClientsPerPath, ndebug>>

\* ------------------------------------------------------------------ helpers
ClientInfo(refPaths) == [refPaths |-> refPaths]

PathInfo(refClients, playCount, recordClient, recordSessionId) ==
    [refClients |-> refClients, playCount |-> playCount,
     recordClient |-> recordClient, recordSessionId |-> recordSessionId]

Event(op, path, status) == [op |-> op, path |-> path, status |-> status]

\* Number of notifications of one kind for one path in a handler's output.
RECURSIVE Count(_, _, _)
Count(seq, kind, path) ==
    IF seq = <<>> THEN 0
    ELSE (IF Head(seq) = <<kind, path>> THEN 1 ELSE 0) + Count(Tail(seq), kind, path)

Emits(seq, kind, path) == \E i \in 1..Len(seq) : seq[i] = <<kind, path>>

PlayBalanceAfter(seq) ==
    [p \in Paths |-> playBalance[p] + Count(seq, "firstPlayerConnected", p)
                                    - Count(seq, "lastPlayerDisconnected", p)]

RecBalanceAfter(seq) ==
    [p \in Paths |-> recBalance[p] + Count(seq, "recorderConnected", p)
                                   - Count(seq, "recorderDisconnected", p)]

\* The observer's bookkeeping for the notifications of one handler run.
Notify(seq) ==
    /\ emitted' = seq
    /\ playBalance' = PlayBalanceAfter(seq)
    /\ recBalance' = RecBalanceAfter(seq)

\* ---------------------------------------------------------------- isRecording
\* isRecording answering for the path entry instead of its recorder.
isRecording_AnyEntry(path) == path \in DOMAIN paths

isRecording(path) ==
    IF path \notin DOMAIN paths THEN FALSE
    ELSE \/ paths[path].recordClient # NoClient
         \/ paths[path].recordSessionId # NoSession

\* --------------------------------------------------------------- registerPath
\* registerPath forgetting to add the client to an existing path's refClients.
registerPath_NoRefClient(client, path) ==
    [clients |->
        IF client \notin DOMAIN clients
        THEN (client :> ClientInfo({path})) @@ clients
        ELSE [clients EXCEPT ![client].refPaths = @ \cup {path}],
     paths |->
        IF path \notin DOMAIN paths
        THEN (path :> PathInfo({client}, 0, NoClient, NoSession)) @@ paths
        ELSE paths]

registerPath(client, path) ==
    [clients |->
        IF client \notin DOMAIN clients
        THEN (client :> ClientInfo({path})) @@ clients
        ELSE [clients EXCEPT ![client].refPaths = @ \cup {path}],
     paths |->
        IF path \notin DOMAIN paths
        THEN (path :> PathInfo({client}, 0, NoClient, NoSession)) @@ paths
        ELSE [paths EXCEPT ![path].refClients = @ \cup {client}]]

\* ----------------------------------------------------------------------- Init
\* The state after construction, for a given value of the limit option.
InitWith(limits) ==
    /\ clients = << >>
    /\ paths = << >>
    /\ maxClientsPerPath \in limits
    /\ ndebug \in BOOLEAN
    /\ aborted = FALSE
    /\ event = Event("none", "", GST_RTSP_STS_OK)
    /\ emitted = <<>>
    /\ playBalance = [p \in Paths |-> 0]
    /\ recBalance = [p \in Paths |-> 0]
    /\ activePlay = {}
    /\ registered = {}

\* ----------------------------------------------------------------- beforePlay
\* beforePlay refusing only once the limit is already exceeded.
beforePlay_Late(path) ==
    IF /\ maxClientsPerPath > 0
       /\ path \in DOMAIN paths
       /\ paths[path].playCount > maxClientsPerPath
    THEN GST_RTSP_STS_FORBIDDEN
    ELSE GST_RTSP_STS_OK

\* beforePlay comparing with the limit itself.
beforePlay_AtLimit(path) ==
    IF /\ maxClientsPerPath > 0
       /\ path \in DOMAIN paths
       /\ paths[path].playCount >= maxClientsPerPath
    THEN GST_RTSP_STS_FORBIDDEN
    ELSE GST_RTSP_STS_OK

beforePlay(path) ==
    IF /\ maxClientsPerPath > 0
       /\ path \in DOMAIN paths
       /\ paths[path].playCount >= maxClientsPerPath - 1
    THEN GST_RTSP_STS_FORBIDDEN
    ELSE GST_RTSP_STS_OK

\* client and sessionId are only logged.
BeforePlay(path) ==
    /\ ~aborted
    /\ event' = Event("beforePlay", path, beforePlay(path))
    /\ Notify(<<>>)
    /\ UNCHANGED <<store, config, aborted, registered>>

\* --------------------------------------------------------------------- onPlay
\* onPlay announcing the first player only when it created the path entry.
onPlay_FirstOnCreate(client, path) ==
    LET reg == registerPath(client, path)
        playCount == reg.paths[path].playCount + 1
    IN  [clients |-> reg.clients,
         paths |-> [reg.paths EXCEPT ![path].playCount = playCount],
         emitted |-> IF path \notin DOMAIN paths
                     THEN << <<"firstPlayerConnected", path>> >>
                     ELSE <<>>]

onPlay(client, path) ==
    LET reg == registerPath(client, path)
        playCount == reg.paths[path].playCount + 1
    IN  [clients |-> reg.clients,
         paths |-> [reg.paths EXCEPT ![path].playCount = playCount],
         emitted |-> IF playCount = 1
                     THEN << <<"firstPlayerConnected", path>> >>
                     ELSE <<>>]

\* sessionId is only logged.
OnPlay(client, path) ==
    LET r == onPlay(client, path) IN
    /\ ~aborted
    /\ clients' = r.clients
    /\ paths' = r.paths
    /\ event' = Event("onPlay", path, GST_RTSP_STS_OK)
    /\ Notify(r.emitted)
    /\ registered' = registered \cup {client}
    /\ UNCHANGED <<config, aborted>>

\* --------------------------------------------------------------- beforeRecord
beforeRecord(path) ==
    IF isRecording(path)
    THEN GST_RTSP_STS_SERVICE_UNAVAILABLE
    ELSE GST_RTSP_STS_OK

\* client and sessionId are only logged.
BeforeRecord(path) ==
    /\ ~aborted
    /\ event' = Event("beforeRecord", path, beforeRecord(path))
    /\ Notify(<<>>)
    /\ UNCHANGED <<store, config, aborted, registered>>

\* ------------------------------------------------------------------- onRecord
\* onRecord taking the new session id although the path has a recorder.
onRecord_NewSession(client, path, sessionId) ==
    LET reg == registerPath(client, path)
        pathInfo == reg.paths[path]
    IN  IF pathInfo.recordClient # NoClient \/ pathInfo.recordSessionId # NoSession
        THEN [clients |-> reg.clients,
              paths |-> [reg.paths EXCEPT ![path].recordSessionId = sessionId],
              emitted |-> <<>>]
        ELSE [clients |-> reg.clients,
              paths |-> [reg.paths EXCEPT ![path].recordClient = client,
                                          ![path].recordSessionId = sessionId],
              emitted |-> << <<"recorderConnected", path>> >>]

\* onRecord refusing only a recorder other than the caller.
onRecord_SameClientAgain(client, path, sessionId) ==
    LET reg == registerPath(client, path)
        pathInfo == reg.paths[path]
    IN  IF pathInfo.recordClient # NoClient /\ pathInfo.recordClient # client
        THEN [clients |-> reg.clients, paths |-> reg.paths, emitted |-> <<>>]
        ELSE [clients |-> reg.clients,
              paths |-> [reg.paths EXCEPT ![path].recordClient = client,
                                          ![path].recordSessionId = sessionId],
              emitted |-> << <<"recorderConnected", path>> >>]

onRecord(client, path, sessionId) ==
    LET reg == registerPath(client, path)
        pathInfo == reg.paths[path]
    IN  IF pathInfo.recordClient # NoClient \/ pathInfo.recordSessionId # NoSession
        THEN [clients |-> reg.clients, paths |-> reg.paths, emitted |-> <<>>]
        ELSE [clients |-> reg.clients,
              paths |-> [reg.paths EXCEPT ![path].recordClient = client,
                                          ![path].recordSessionId = sessionId],
              emitted |-> << <<"recorderConnected", path>> >>]

OnRecord(client, path, sessionId) ==
    LET r == onRecord(client, path, sessionId) IN
    /\ ~aborted
    /\ clients' = r.clients
    /\ paths' = r.paths
    /\ event' = Event("onRecord", path, GST_RTSP_STS_OK)
    /\ Notify(r.emitted)
    /\ registered' = registered \cup {client}
    /\ UNCHANGED <<config, aborted>>

\* ----------------------------------------------------------------- onTeardown
\* onTeardown clearing the recorder without the notification.
onTeardown_Quiet(client, path, sessionId) ==
    IF path \notin DOMAIN paths
    THEN [paths |-> paths, emitted |-> <<>>, role |-> "none"]
    ELSE LET pathInfo == paths[path] IN
         IF client = pathInfo.recordClient /\ sessionId = pathInfo.recordSessionId
         THEN [paths |-> [paths EXCEPT ![path].recordClient = NoClient,
                                       ![path].recordSessionId = NoSession],
               emitted |-> <<>>,
               role |-> "recorder"]
         ELSE IF pathInfo.playCount > 0
              THEN [paths |-> [paths EXCEPT ![path].playCount = @ - 1],
                    emitted |-> IF pathInfo.playCount - 1 = 0
                                THEN << <<"lastPlayerDisconnected", path>> >>
                                ELSE <<>>,
                    role |-> "player"]
              ELSE [paths |-> paths, emitted |-> <<>>, role |-> "none"]

\* onTeardown of the recorder also releasing a play count.
onTeardown_DropsPlay(client, path, sessionId) ==
    IF path \notin DOMAIN paths
    THEN [paths |-> paths, emitted |-> <<>>, role |-> "none"]
    ELSE LET pathInfo == paths[path] IN
         IF client = pathInfo.recordClient /\ sessionId = pathInfo.recordSessionId
         THEN [paths |-> [paths EXCEPT ![path].recordClient = NoClient,
                                       ![path].recordSessionId = NoSession,
                                       ![path].playCount =
                                           IF @ > 0 THEN @ - 1 ELSE @],
               emitted |-> << <<"recorderDisconnected", path>> >>,
               role |-> "recorder"]
         ELSE IF pathInfo.playCount > 0
              THEN [paths |-> [paths EXCEPT ![path].playCount = @ - 1],
                    emitted |-> IF pathInfo.playCount - 1 = 0
                                THEN << <<"lastPlayerDisconnected", path>> >>
                                ELSE <<>>,
                    role |-> "player"]
              ELSE [paths |-> paths, emitted |-> <<>>, role |-> "none"]

\* onTeardown dropping the client's reference once its play session ends.
onTeardown_Prunes(client, path, sessionId) ==
    IF path \notin DOMAIN paths
    THEN [paths |-> paths, emitted |-> <<>>, role |-> "none"]
    ELSE LET pathInfo == paths[path] IN
         IF client = pathInfo.recordClient /\ sessionId = pathInfo.recordSessionId
         THEN [paths |-> [paths EXCEPT ![path].recordClient = NoClient,
                                       ![path].recordSessionId = NoSession],
               emitted |-> << <<"recorderDisconnected", path>> >>,
               role |-> "recorder"]
         ELSE IF pathInfo.playCount > 0
              THEN [paths |-> [paths EXCEPT ![path].playCount = @ - 1,
                                            ![path].refClients = @ \ {client}],
                    emitted |-> IF pathInfo.playCount - 1 = 0
                                THEN << <<"lastPlayerDisconnected", path>> >>
                                ELSE <<>>,
                    role |-> "player"]
              ELSE [paths |-> paths, emitted |-> <<>>, role |-> "none"]

\* onTeardown decrementing playCount without testing it.
onTeardown_Unchecked(client, path, sessionId) ==
    IF path \notin DOMAIN paths
    THEN [paths |-> paths, emitted |-> <<>>, role |-> "none"]
    ELSE LET pathInfo == paths[path] IN
         IF client = pathInfo.recordClient /\ sessionId = pathInfo.recordSessionId
         THEN [paths |-> [paths EXCEPT ![path].recordClient = NoClient,
                                       ![path].recordSessionId = NoSession],
               emitted |-> << <<"recorderDisconnected", path>> >>,
               role |-> "recorder"]
         ELSE IF TRUE
              THEN [paths |-> [paths EXCEPT ![path].playCount = @ - 1],
                    emitted |-> IF pathInfo.playCount - 1 = 0
                                THEN << <<"lastPlayerDisconnected", path>> >>
                                ELSE <<>>,
                    role |-> "player"]
              ELSE [paths |-> paths, emitted |-> <<>>, role |-> "none"]

onTeardown(client, path, sessionId) ==
    IF path \notin DOMAIN paths
    THEN [paths |-> paths, emitted |-> <<>>, role |-> "none"]
    ELSE LET pathInfo == paths[path] IN
         IF client = pathInfo.recordClient /\ sessionId = pathInfo.recordSessionId
         THEN [paths |-> [paths EXCEPT ![path].recordClient = NoClient,
                                       ![path].recordSessionId = NoSession],
               emitted |-> << <<"recorderDisconnected", path>> >>,
               role |-> "recorder"]
         ELSE IF pathInfo.playCount > 0
              THEN [paths |-> [paths EXCEPT ![path].playCount = @ - 1],
                    emitted |-> IF pathInfo.playCount - 1 = 0
                                THEN << <<"lastPlayerDisconnected", path>> >>
                                ELSE <<>>,
                    role |-> "player"]
              ELSE [paths |-> paths, emitted |-> <<>>, role |-> "none"]

OnTeardown(client, path, sessionId) ==
    LET r == onTeardown(client, path, sessionId) IN
    /\ ~aborted
    /\ paths' = r.paths
    /\ event' = Event("onTeardown", path, GST_RTSP_STS_OK)
    /\ Notify(r.emitted)
    /\ UNCHANGED <<clients, config, aborted, registered>>

\* ------------------------------------------------------------- onClientClosed
\* One iteration of the loop over refPaths; acc carries the paths map, the
\* notifications sent so far and whether an assert() has ended the process.
\* closePath leaving a closing recorder in place while others reference the path.
closePath_KeepRecorder(acc, client, path) ==
    IF acc.aborted \/ path \notin DOMAIN acc.paths THEN acc
    ELSE
    LET pathInfo == acc.paths[path]
        refClients == pathInfo.refClients \ {client}
        erased == [p \in DOMAIN acc.paths \ {path} |-> acc.paths[p]]
        stopped == [acc EXCEPT !.aborted = TRUE,
                               !.paths[path].refClients = refClients]
    IN
    IF refClients = {}
    THEN IF pathInfo.recordClient = NoClient
         THEN IF ~ndebug /\ pathInfo.playCount \notin {0, 1}
              THEN stopped
              ELSE IF pathInfo.playCount = 1
                   THEN [acc EXCEPT !.paths = erased,
                            !.emitted = Append(@, <<"lastPlayerDisconnected", path>>)]
                   ELSE [acc EXCEPT !.paths = erased]
         ELSE IF ~ndebug /\ pathInfo.recordClient # client
              THEN stopped
              ELSE [acc EXCEPT !.paths = erased,
                       !.emitted = Append(@, <<"recorderDisconnected", path>>)]
    ELSE
    LET wasRecorder == FALSE
        info1 == [pathInfo EXCEPT !.refClients = refClients]
        acc1 == [acc EXCEPT !.paths[path] = info1,
                    !.emitted = IF wasRecorder
                                THEN Append(@, <<"recorderDisconnected", path>>)
                                ELSE @]
    IN
    IF Cardinality(refClients) = 1 /\ info1.recordClient # NoClient
    THEN IF ~ndebug /\ info1.playCount \notin {0, 1}
         THEN [acc1 EXCEPT !.aborted = TRUE]
         ELSE IF info1.playCount = 1
              THEN [acc1 EXCEPT !.paths[path].playCount = 0,
                       !.emitted = Append(@, <<"lastPlayerDisconnected", path>>)]
              ELSE acc1
    ELSE acc1

\* closePath forgetting paths.erase(pathIt).
closePath_NoErase(acc, client, path) ==
    IF acc.aborted \/ path \notin DOMAIN acc.paths THEN acc
    ELSE
    LET pathInfo == acc.paths[path]
        refClients == pathInfo.refClients \ {client}
        erased == [acc.paths EXCEPT ![path].refClients = refClients]
        stopped == [acc EXCEPT !.aborted = TRUE,
                               !.paths[path].refClients = refClients]
    IN
    IF refClients = {}
    THEN IF pathInfo.recordClient = NoClient
         THEN IF ~ndebug /\ pathInfo.playCount \notin {0, 1}
              THEN stopped
              ELSE IF pathInfo.playCount = 1
                   THEN [acc EXCEPT !.paths = erased,
                            !.emitted = Append(@, <<"lastPlayerDisconnected", path>>)]
                   ELSE [acc EXCEPT !.paths = erased]
         ELSE IF ~ndebug /\ pathInfo.recordClient # client
              THEN stopped
              ELSE [acc EXCEPT !.paths = erased,
                       !.emitted = Append(@, <<"recorderDisconnected", path>>)]
    ELSE
    LET wasRecorder == client = pathInfo.recordClient
        info1 == IF wasRecorder
                 THEN [pathInfo EXCEPT !.refClients = refClients,
                                       !.recordClient = NoClient,
                                       !.recordSessionId = NoSession]
                 ELSE [pathInfo EXCEPT !.refClients = refClients]
        acc1 == [acc EXCEPT !.paths[path] = info1,
                    !.emitted = IF wasRecorder
                                THEN Append(@, <<"recorderDisconnected", path>>)
                                ELSE @]
    IN
    IF Cardinality(refClients) = 1 /\ info1.recordClient # NoClient
    THEN IF ~ndebug /\ info1.playCount \notin {0, 1}
         THEN [acc1 EXCEPT !.aborted = TRUE]
         ELSE IF info1.playCount = 1
              THEN [acc1 EXCEPT !.paths[path].playCount = 0,
                       !.emitted = Append(@, <<"lastPlayerDisconnected", path>>)]
              ELSE acc1
    ELSE acc1

closePath(acc, client, path) ==
    IF acc.aborted \/ path \notin DOMAIN acc.paths THEN acc
    ELSE
    LET pathInfo == acc.paths[path]
        refClients == pathInfo.refClients \ {client}
        erased == [p \in DOMAIN acc.paths \ {path} |-> acc.paths[p]]
        stopped == [acc EXCEPT !.aborted = TRUE,
                               !.paths[path].refClients = refClients]
    IN
    IF refClients = {}
    THEN IF pathInfo.recordClient = NoClient
         THEN IF ~ndebug /\ pathInfo.playCount \notin {0, 1}
              THEN stopped
              ELSE IF pathInfo.playCount = 1
                   THEN [acc EXCEPT !.paths = erased,
                            !.emitted = Append(@, <<"lastPlayerDisconnected", path>>)]
                   ELSE [acc EXCEPT !.paths = erased]
         ELSE IF ~ndebug /\ pathInfo.recordClient # client
              THEN stopped
              ELSE [acc EXCEPT !.paths = erased,
                       !.emitted = Append(@, <<"recorderDisconnected", path>>)]
    ELSE
    LET wasRecorder == client = pathInfo.recordClient
        info1 == IF wasRecorder
                 THEN [pathInfo EXCEPT !.refClients = refClients,
                                       !.recordClient = NoClient,
                                       !.recordSessionId = NoSession]
                 ELSE [pathInfo EXCEPT !.refClients = refClients]
        acc1 == [acc EXCEPT !.paths[path] = info1,
                    !.emitted = IF wasRecorder
                                THEN Append(@, <<"recorderDisconnected", path>>)
                                ELSE @]
    IN
    IF Cardinality(refClients) = 1 /\ info1.recordClient # NoClient
    THEN IF ~ndebug /\ info1.playCount \notin {0, 1}
         THEN [acc1 EXCEPT !.aborted = TRUE]
         ELSE IF info1.playCount = 1
              THEN [acc1 EXCEPT !.paths[path].playCount = 0,
                       !.emitted = Append(@, <<"lastPlayerDisconnected", path>>)]
              ELSE acc1
    ELSE acc1

\* The loop, over the client's refPaths in the order of the std::set.
RECURSIVE closeLoop(_, _, _, _)
closeLoop(acc, client, refPaths, i) ==
    IF i > Len(PathOrder) THEN acc
    ELSE closeLoop(IF PathOrder[i] \in refPaths
                   THEN closePath(acc, client, PathOrder[i])
                   ELSE acc,
                   client, refPaths, i + 1)

\* onClientClosed releasing the paths but keeping the client's own entry.
onClientClosed_KeepsEntry(client) ==
    LET start == [paths |-> paths, emitted |-> <<>>, aborted |-> FALSE] IN
    IF client \notin DOMAIN clients
    THEN [clients |-> clients] @@ start
    ELSE LET done == closeLoop(start, client, clients[client].refPaths, 1) IN
         [clients |-> clients] @@ done

onClientClosed(client) ==
    LET start == [paths |-> paths, emitted |-> <<>>, aborted |-> FALSE] IN
    IF client \notin DOMAIN clients
    THEN [clients |-> clients] @@ start
    ELSE LET done == closeLoop(start, client, clients[client].refPaths, 1) IN
         [clients |-> IF done.aborted THEN clients
                      ELSE [c \in DOMAIN clients \ {client} |-> clients[c]]] @@ done

OnClientClosed(client) ==
    LET r == onClientClosed(client) IN
    /\ ~aborted
    /\ clients' = r.clients
    /\ paths' = r.paths
    /\ aborted' = r.aborted
    /\ event' = Event("onClientClosed", "", GST_RTSP_STS_OK)
    /\ Notify(r.emitted)
    /\ registered' = registered \ {client}
    /\ UNCHANGED config

\* ------------------------------------------------- play-session bookkeeping
\* Which play sessions are open is not stored by the server; these follow the
\* handlers' arguments: a session opens in onPlay and ends with its TEARDOWN
\* (unless that TEARDOWN is the recorder's) or with the close of its client.
Untracked == UNCHANGED activePlay

PlayStarted(client, path, sessionId) ==
    activePlay' = activePlay \cup {<<client, path, sessionId>>}

TornDown(client, path, sessionId) ==
    activePlay' = IF onTeardown(client, path, sessionId).role = "recorder"
                  THEN activePlay
                  ELSE activePlay \ {<<client, path, sessionId>>}

Closed(client) == activePlay' = {a \in activePlay : a[1] # client}

\* ------------------------------------------------------------ specifications
\* Keeps playCount and the notification surplus finite.
PlayBounded(path, cap) ==
    LET playCount == IF path \in DOMAIN paths THEN paths[path].playCount ELSE 0 IN
    /\ playCount < cap
    /\ playBalance[path] + (IF playCount = 0 THEN 1 ELSE 0) <= MaxBalance

\* No limit configured (the limit is read by beforePlay only, and no handler
\* consults beforePlay's status: the engine does).
Init == InitWith({0})

\* Any handler, for any client, path and session, in any order.
Next ==
    \/ \E p \in Paths : BeforePlay(p) /\ Untracked
    \/ \E c \in Clients, p \in Paths :
          PlayBounded(p, MaxPlayCount) /\ OnPlay(c, p) /\ Untracked
    \/ \E p \in Paths : BeforeRecord(p) /\ Untracked
    \/ \E c \in Clients, p \in Paths, s \in Sessions : OnRecord(c, p, s) /\ Untracked
    \/ \E c \in Clients, p \in Paths, s \in Sessions : OnTeardown(c, p, s) /\ Untracked
    \/ \E c \in Clients : OnClientClosed(c) /\ Untracked

Spec == Init /\ [][Next]_vars

\* A limit configured, and the engine's sequencing of PLAY: the play-request
\* signal follows a pre-play-request on the same path that returned OK.
InitAdmit == InitWith(1..MaxLimit)

Admitted(path) ==
    /\ event.op = "beforePlay"
    /\ event.path = path
    /\ event.status = GST_RTSP_STS_OK

NextAdmit ==
    \/ \E p \in Paths : BeforePlay(p) /\ Untracked
    \/ \E c \in Clients, p \in Paths :
          Admitted(p) /\ PlayBounded(p, MaxLimit + 1) /\ OnPlay(c, p) /\ Untracked
    \/ \E p \in Paths : BeforeRecord(p) /\ Untracked
    \/ \E c \in Clients, p \in Paths, s \in Sessions : OnRecord(c, p, s) /\ Untracked
    \/ \E c \in Clients, p \in Paths, s \in Sessions : OnTeardown(c, p, s) /\ Untracked
    \/ \E c \in Clients : OnClientClosed(c) /\ Untracked

SpecAdmit == InitAdmit /\ [][NextAdmit]_vars

\* The handlers on one path, with the open play sessions followed.
SessionClients == Clients \cup {"c3"}

SessionPaths == {"/a"}

NextSessions ==
    \/ \E p \in SessionPaths : BeforePlay(p) /\ Untracked
    \/ \E c \in SessionClients, p \in SessionPaths, s \in Sessions :
          PlayBounded(p, MaxPlayCount) /\ OnPlay(c, p) /\ PlayStarted(c, p, s)
    \/ \E p \in SessionPaths : BeforeRecord(p) /\ Untracked
    \/ \E c \in SessionClients, p \in SessionPaths, s \in Sessions :
          OnRecord(c, p, s) /\ Untracked
    \/ \E c \in SessionClients, p \in SessionPaths, s \in Sessions :
          OnTeardown(c, p, s) /\ TornDown(c, p, s)
    \/ \E c \in SessionClients : OnClientClosed(c) /\ Closed(c)

SpecSessions == Init /\ [][NextSessions]_vars

\* The same, for a well-behaved engine and well-behaved clients: session ids
\* are unique among the open sessions, a client plays a path in at most one
\* session at a time, RECORD reaches onRecord only when beforeRecord allows it,
\* and TEARDOWN names a session its client has open on that path.
RoutedSessions == Sessions \cup {"s3"}

SessionInUse(sessionId) ==
    \/ \E a \in activePlay : a[3] = sessionId
    \/ \E p \in DOMAIN paths : paths[p].recordSessionId = sessionId

Playing(client, path) == \E a \in activePlay : a[1] = client /\ a[2] = path

OpenSession(client, path, sessionId) ==
    \/ <<client, path, sessionId>> \in activePlay
    \/ /\ path \in DOMAIN paths
       /\ paths[path].recordClient = client
       /\ paths[path].recordSessionId = sessionId

NextRouted ==
    \/ \E p \in SessionPaths : BeforePlay(p) /\ Untracked
    \/ \E c \in SessionClients, p \in SessionPaths, s \in RoutedSessions :
          /\ ~SessionInUse(s)
          /\ ~Playing(c, p)
          /\ PlayBounded(p, MaxPlayCount)
          /\ OnPlay(c, p)
          /\ PlayStarted(c, p, s)
    \/ \E p \in SessionPaths : BeforeRecord(p) /\ Untracked
    \/ \E c \in SessionClients, p \in SessionPaths, s \in RoutedSessions :
          /\ ~SessionInUse(s)
          /\ beforeRecord(p) = GST_RTSP_STS_OK
          /\ OnRecord(c, p, s)
          /\ Untracked
    \/ \E c \in SessionClients, p \in SessionPaths, s \in RoutedSessions :
          OpenSession(c, p, s) /\ OnTeardown(c, p, s) /\ TornDown(c, p, s)
    \/ \E c \in SessionClients : OnClientClosed(c) /\ Closed(c)

SpecRouted == Init /\ [][NextRouted]_vars

\* ------------------------------------------------------------------- claims
StoreEmpty == clients = << >> /\ paths = << >>

PlayCountOf(path) == IF path \in DOMAIN paths THEN paths[path].playCount ELSE 0

RecorderOf(path) == IF path \in DOMAIN paths THEN paths[path].recordClient ELSE NoClient

HasRecorder(path) == RecorderOf(path) # NoClient

RefClientsOf(path) == IF path \in DOMAIN paths THEN paths[path].refClients ELSE {}

Max(a, b) == IF a >= b THEN a ELSE b

\* C1: after every handler that ran to its end, the two views agree: p is in
\* clients[c].refPaths exactly when c is in paths[p].refClients, a missing
\* entry counting as an empty set.
C1_ViewsAgree ==
    ~aborted =>
        /\ \A c \in DOMAIN clients : \A p \in clients[c].refPaths :
              p \in DOMAIN paths /\ c \in paths[p].refClients
        /\ \A p \in DOMAIN paths : \A c \in paths[p].refClients :
              c \in DOMAIN clients /\ p \in clients[c].refPaths

\* A close that left the other client referencing both paths.
C1_Witness ==
    /\ event.op = "onClientClosed"
    /\ emitted # <<>>
    /\ DOMAIN paths = Paths
    /\ \E c \in Clients : DOMAIN clients = {c} /\ clients[c].refPaths = Paths

\* C2: whenever the store is empty again, every path has had as many
\* firstPlayerConnected as lastPlayerDisconnected notifications.
C2_PlayerEmissionsBalanced == StoreEmpty => \A p \in Paths : playBalance[p] = 0

\* C3: firstPlayerConnected is never sent twice for a path without a
\* lastPlayerDisconnected in between; any run that does so has, at that point,
\* two more firstPlayerConnected than lastPlayerDisconnected for the path.
C3_PlayerEventsAlternate == \A p \in Paths : playBalance[p] <= 1

\* C4: with the limit set and onPlay only right after a beforePlay on the same
\* path that returned OK, no path's playCount exceeds maxClientsPerPath.
C4_PlayCountWithinLimit ==
    maxClientsPerPath > 0 =>
        \A p \in DOMAIN paths : paths[p].playCount <= maxClientsPerPath

\* An admitted play brought a path to the limit.
C4_Witness ==
    /\ event.op = "onPlay"
    /\ maxClientsPerPath > 0
    /\ paths[event.path].playCount = maxClientsPerPath

\* Only counted players reference the path: no recorder, and as many
\* referencing clients as playCount (none at all for a path without entry).
PlayersOnly(path) ==
    /\ ~HasRecorder(path)
    /\ Cardinality(RefClientsOf(path)) = PlayCountOf(path)

\* C5, as stated: on a path that distinct clients have only played, beforePlay
\* answers 403 exactly when maxClientsPerPath players are already counted (the
\* first N clients get OK, the (N+1)th is the first refused).
C5_ForbiddenOnlyBeyondLimit ==
    (event.op = "beforePlay" /\ maxClientsPerPath > 0 /\ PlayersOnly(event.path)) =>
        (event.status = GST_RTSP_STS_FORBIDDEN
            <=> PlayCountOf(event.path) >= maxClientsPerPath)

\* C5, amended: beforePlay answers 403 exactly when the path has an entry whose
\* playCount has reached maxClientsPerPath - 1, so admitted plays take a path
\* to max(1, maxClientsPerPath - 1) players and no further.
C5_ForbiddenFromLimitMinusOne ==
    maxClientsPerPath > 0 =>
        /\ event.op = "beforePlay" =>
              (event.status = GST_RTSP_STS_FORBIDDEN
                  <=> /\ event.path \in DOMAIN paths
                      /\ PlayCountOf(event.path) >= maxClientsPerPath - 1)
        /\ \A p \in Paths : PlayCountOf(p) <= Max(1, maxClientsPerPath - 1)

\* With a limit of 2 and one admitted player alone on the path, the second
\* beforePlay is refused.
C5_Witness ==
    /\ event.op = "beforePlay"
    /\ event.status = GST_RTSP_STS_FORBIDDEN
    /\ maxClientsPerPath = 2
    /\ event.path \in DOMAIN paths
    /\ paths[event.path].playCount = 1
    /\ paths[event.path].recordClient = NoClient
    /\ Cardinality(paths[event.path].refClients) = 1

\* C6: onRecord on a path whose recordClient is set leaves recordClient and
\* recordSessionId as they were and sends no recorderConnected, whoever the
\* caller and whatever the session id.
C6_RecordKeepsRecorder ==
    [][\A c \in Clients, p \in Paths, s \in Sessions :
          (event'.op = "onRecord" /\ HasRecorder(p) /\ OnRecord(c, p, s)) =>
              /\ paths'[p].recordClient = paths[p].recordClient
              /\ paths'[p].recordSessionId = paths[p].recordSessionId
              /\ ~Emits(emitted', "recorderConnected", p)]_vars

\* A second client's onRecord was refused on a recorded path.
C6_Witness ==
    /\ event.op = "onRecord"
    /\ emitted = <<>>
    /\ HasRecorder(event.path)
    /\ paths[event.path].refClients = Clients

\* C7: beforeRecord answers 503 exactly when the path has an entry with a
\* recorder set and OK otherwise, changes neither map and sends nothing.
C7_BeforeRecordChecksOnly ==
    [][\A p \in Paths :
          (event'.op = "beforeRecord" /\ BeforeRecord(p)) =>
              /\ event'.status = IF HasRecorder(p)
                                 THEN GST_RTSP_STS_SERVICE_UNAVAILABLE
                                 ELSE GST_RTSP_STS_OK
              /\ clients' = clients
              /\ paths' = paths
              /\ emitted' = <<>>]_vars

\* beforeRecord refused a path that has a recorder, next to a path with
\* players only.
C7_Witness ==
    /\ event.op = "beforeRecord"
    /\ event.status = GST_RTSP_STS_SERVICE_UNAVAILABLE
    /\ \E p \in Paths : ~HasRecorder(p) /\ PlayCountOf(p) > 0

\* C8: whenever the store is empty again, every path has had as many
\* recorderConnected as recorderDisconnected notifications.
C8_RecorderEmissionsBalanced == StoreEmpty => \A p \in Paths : recBalance[p] = 0

\* The store emptied by the close of a client that was still recording.
C8_Witness ==
    /\ StoreEmpty
    /\ event.op = "onClientClosed"
    /\ \E p \in Paths : Emits(emitted, "recorderDisconnected", p)

\* C9: per path, recorderConnected is sent only when no recorder is set and
\* recorderDisconnected only when one is: the path has had exactly one more
\* recorderConnected than recorderDisconnected while a recorder is set and as
\* many of each while none is, so the two alternate, recorderConnected first.
C9_RecorderEventsAlternate ==
    \A p \in Paths : recBalance[p] = IF HasRecorder(p) THEN 1 ELSE 0

\* The recorder closed while another client keeps the path alive.
C9_Witness ==
    /\ event.op = "onClientClosed"
    /\ \E p \in DOMAIN paths :
          /\ Emits(emitted, "recorderDisconnected", p)
          /\ paths[p].playCount > 0
          /\ recBalance[p] = 0

\* C10: the close of a client that holds the only open play session of a path
\* sends lastPlayerDisconnected for the path and removes the client's entry.
OnlyPlayer(client, path) ==
    /\ PlayCountOf(path) = 1
    /\ \E s \in Sessions : {a \in activePlay : a[2] = path} = {<<client, path, s>>}

C10_AbruptCloseReleasesPlay ==
    [][\A c \in SessionClients, p \in SessionPaths :
          (event'.op = "onClientClosed" /\ OnlyPlayer(c, p) /\ OnClientClosed(c)) =>
              /\ Emits(emitted', "lastPlayerDisconnected", p)
              /\ c \notin DOMAIN clients']_vars

\* C11: a path's recordClient, when set, is one of the path's refClients.
C11_RecorderIsReferenced ==
    \A p \in DOMAIN paths :
        paths[p].recordClient # NoClient =>
            paths[p].recordClient \in paths[p].refClients

\* A close of the other client left the recorder alone on its path.
C11_Witness ==
    /\ event.op = "onClientClosed"
    /\ \E p \in DOMAIN paths :
          /\ HasRecorder(p)
          /\ paths[p].refClients = {paths[p].recordClient}
          /\ Emits(emitted, "lastPlayerDisconnected", p)

\* The step closes the client that was the only reference of the path.
LastReference(path) ==
    \E c \in DOMAIN clients :
        /\ c \notin DOMAIN clients'
        /\ paths[path].refClients = {c}

\* C12: no path entry with empty refClients is left by a handler that ran to
\* its end, and a path entry disappears in exactly those steps where
\* onClientClosed removes the client that was its only reference.
C12_PathLivesWithReferences ==
    [][~aborted' =>
          /\ \A p \in DOMAIN paths' : paths'[p].refClients # {}
          /\ \A p \in DOMAIN paths :
                p \notin DOMAIN paths' <=>
                    (event'.op = "onClientClosed" /\ LastReference(p))]_vars

\* A close deleted one path, with its last player, and kept another.
C12_Witness ==
    /\ event.op = "onClientClosed"
    /\ paths # << >>
    /\ \E p \in Paths \ DOMAIN paths : Emits(emitted, "lastPlayerDisconnected", p)

\* The play sessions open on a path.
ActivePlaysOn(path) == {a \in activePlay : a[2] = path}

\* C13: with well-routed TEARDOWNs, a path's playCount is the number of play
\* sessions opened on it by onPlay and neither torn down nor ended by the
\* close of their client.
C13_PlayCountIsActiveSessions ==
    \A p \in SessionPaths : PlayCountOf(p) = Cardinality(ActivePlaysOn(p))

\* The notifications of one call that concern a path, in order.
EmittedFor(seq, path) == SelectSeq(seq, LAMBDA e : e[2] = path)

\* C14: when onClientClosed removes the last reference of a path whose
\* recorder is the closing client and whose playCount is 1, it sends, for that
\* path, recorderDisconnected and then lastPlayerDisconnected.
C14_RecorderThenLastPlayer ==
    [][\A c \in SessionClients, p \in SessionPaths :
          (/\ event'.op = "onClientClosed"
           /\ RefClientsOf(p) = {c}
           /\ RecorderOf(p) = c
           /\ PlayCountOf(p) = 1
           /\ OnClientClosed(c)) =>
              EmittedFor(emitted', p) = << <<"recorderDisconnected", p>>,
                                           <<"lastPlayerDisconnected", p>> >>]_vars

\* C15: no assert() of onClientClosed fails (a failed assert() is what sets
\* aborted, in a build that keeps assertions).
C15_AssertionsNeverFail == ~aborted

\* C16: onPlay registers the client, raises the path's playCount by exactly
\* one, and sends firstPlayerConnected once if playCount was 0 before (path
\* absent, or present without players) and nothing otherwise.
C16_PlayCountsAndAnnouncesFirst ==
    [][\A c \in Clients, p \in Paths :
          (event'.op = "onPlay" /\ OnPlay(c, p)) =>
              /\ c \in RefClientsOf(p)'
              /\ p \in clients'[c].refPaths
              /\ PlayCountOf(p)' = PlayCountOf(p) + 1
              /\ emitted' = IF PlayCountOf(p) = 0
                            THEN << <<"firstPlayerConnected", p>> >>
                            ELSE <<>>]_vars

\* A first player announced on a path that a recorder had created.
C16_Witness ==
    /\ event.op = "onPlay"
    /\ emitted = << <<"firstPlayerConnected", event.path>> >>
    /\ HasRecorder(event.path)
    /\ RecorderOf(event.path) \in DOMAIN clients
    /\ Cardinality(RefClientsOf(event.path)) = 2

\* C17: onTeardown by the path's recordClient with its recordSessionId clears
\* both recorder fields, sends exactly recorderDisconnected and leaves
\* playCount as it was.
C17_RecorderTeardownKeepsPlayCount ==
    [][\A c \in Clients, p \in Paths, s \in Sessions :
          (/\ event'.op = "onTeardown"
           /\ RecorderOf(p) = c
           /\ paths[p].recordSessionId = s
           /\ OnTeardown(c, p, s)) =>
              /\ paths'[p].recordClient = NoClient
              /\ paths'[p].recordSessionId = NoSession
              /\ paths'[p].playCount = paths[p].playCount
              /\ emitted' = << <<"recorderDisconnected", p>> >>]_vars

\* The recorder's TEARDOWN on a path whose only client also plays it.
C17_Witness ==
    /\ event.op = "onTeardown"
    /\ emitted = << <<"recorderDisconnected", event.path>> >>
    /\ PlayCountOf(event.path) = 1
    /\ Cardinality(RefClientsOf(event.path)) = 1

\* C18: onTeardown, in every branch, leaves the clients map, every refPaths,
\* every refClients and the set of path entries as they were.
C18_TeardownKeepsReferences ==
    [][\A c \in Clients, p \in Paths, s \in Sessions :
          (event'.op = "onTeardown" /\ OnTeardown(c, p, s)) =>
              /\ clients' = clients
              /\ DOMAIN paths' = DOMAIN paths
              /\ \A q \in DOMAIN paths :
                    paths'[q].refClients = paths[q].refClients]_vars

\* The last play session of a path torn down: the path and its client stay.
C18_Witness ==
    /\ event.op = "onTeardown"
    /\ emitted = << <<"lastPlayerDisconnected", event.path>> >>
    /\ ~HasRecorder(event.path)
    /\ \E c \in DOMAIN clients :
          /\ RefClientsOf(event.path) = {c}
          /\ event.path \in clients[c].refPaths

\* A TEARDOWN that is neither the recorder's nor that of a counted player.
MatchesNoRole(client, path, sessionId) ==
    \/ path \notin DOMAIN paths
    \/ /\ ~(paths[path].recordClient = client
            /\ paths[path].recordSessionId = sessionId)
       /\ paths[path].playCount = 0

\* C19: onTeardown on a path without entry, or by other than the recorder pair
\* on a path whose playCount is 0, changes nothing in the store and sends
\* nothing; playCount is never negative.
C19_UnmatchedTeardownIsNoOp ==
    [][/\ \A c \in Clients, p \in Paths, s \in Sessions :
             (/\ event'.op = "onTeardown"
              /\ MatchesNoRole(c, p, s)
              /\ OnTeardown(c, p, s)) =>
                 /\ clients' = clients
                 /\ paths' = paths
                 /\ emitted' = <<>>
       /\ \A q \in DOMAIN paths' : paths'[q].playCount >= 0]_vars

\* A TEARDOWN with a session id other than the recorder's on a path without
\* players.
C19_Witness ==
    /\ event.op = "onTeardown"
    /\ emitted = <<>>
    /\ HasRecorder(event.path)
    /\ PlayCountOf(event.path) = 0

\* C20: once every client that onPlay or onRecord registered has been
\* closed, the clients map and the paths map are both empty, whatever
\* TEARDOWNs were issued.
C20_NoEntryLeaks == (~aborted /\ registered = {}) => StoreEmpty

\* The last registered client closed while its play session was still open.
C20_Witness ==
    /\ event.op = "onClientClosed"
    /\ ~aborted
    /\ registered = {}
    /\ StoreEmpty
    /\ \E p \in Paths : Emits(emitted, "lastPlayerDisconnected", p)

\* C21: with well-routed TEARDOWNs, lastPlayerDisconnected is sent for a path
\* only by a step after which no play session is open on that path.
C21_LastPlayerMeansNoSession ==
    \A p \in SessionPaths :
        Emits(emitted, "lastPlayerDisconnected", p) => ActivePlaysOn(p) = {}

====
